---- MODULE Spec2Model ----
(***************************************************************************)
(* Model of util/env_win.cc: the Win32 port of leveldb's Env.              *)
(*                                                                         *)
(* Four specifications share the variables below:                          *)
(*   Spec        Win32WritableFile and Win32SequentialFile over one file   *)
(*   SpecRandom  Win32RandomAccessFile::Read called by concurrent threads  *)
(*   SpecDir     Win32Env::GetChildren, one step per loop iteration        *)
(*   SpecHandles the three file objects together, calls of small sizes     *)
(*                                                                         *)
(* The Win32 calls the code makes (CreateFile, SetFilePointer, ReadFile,   *)
(* WriteFile, FlushFileBuffers, CloseHandle, FindFirstFile, FindNextFile)  *)
(* are modelled by their documented behaviour for the arguments the code   *)
(* passes; device faults of ReadFile, WriteFile and FlushFileBuffers are   *)
(* inputs chosen by the environment.                                       *)
(***************************************************************************)
EXTENDS Integers, Sequences, FiniteSets

VARIABLES
    fs,         \* the file system: name -> [exists, data]
    osHandles,  \* the kernel's handle table: id -> [open, name, write, pos]
    wf,         \* the Win32WritableFile object (one slot)
    appended,   \* history: concatenation of the data of the Appends that returned OK
    sf,         \* the Win32SequentialFile object (one slot)
    readAcc,    \* history: concatenation of the Slices sf.Read returned with OK
    prevSkip,   \* history: the Skip call that immediately precedes, if any
    lastOp,     \* the most recent call on Env / wf / sf and what it returned
    rf,         \* the Win32RandomAccessFile object (one slot)
    mu_,        \* rf's port::Mutex: the thread holding it, or NoThread
    th,         \* per thread: where it is inside rf.Read, and the call's arguments
    raRet,      \* the most recently returned rf.Read call and what it returned
    gc          \* the running Win32Env::GetChildren call

vars == <<fs, osHandles, wf, appended, sf, readAcc, prevSkip, lastOp,
          rf, mu_, th, raRet, gc>>

fileVars   == <<fs, osHandles, wf, appended, sf, readAcc, prevSkip, lastOp>>
randomVars == <<rf, mu_, th, raRet>>

----------------------------------------------------------------------------
(* Bounds *)

MaxFileLen == 2     \* longest file content
MaxRead == 2        \* largest n of a Read
MaxSkip == 1        \* largest n of a Skip
MaxCloseCalls == 2  \* Close() calls followed per writer object
MaxHandles == 2     \* size of the kernel handle table
NumThreads == 2     \* threads calling rf.Read
MaxIter == 6        \* loop iterations of GetChildren that are counted

(* SpecHandles *)
MaxHandleLen == 1      \* longest initial file; largest n and offset of a Read
MaxHandleAdvance == 0  \* most bytes an Append is given or a Skip passes
HandleThreads == 1     \* threads calling rf.Read

Byte == {1, 2}
FileNames == {"000001.log"}
Threads == 1..NumThreads
NoThread == 0
HandleIds == 1..MaxHandles

(* Win32 values the code compares against *)
INVALID_HANDLE_VALUE == -1
INVALID_SET_FILE_POINTER == -1   \* the DWORD 0xFFFFFFFF
FALSE_ == 0                      \* the Win32 macro FALSE, as compared with a DWORD

Min(a, b) == IF a <= b THEN a ELSE b
Max(a, b) == IF a >= b THEN a ELSE b

SeqsUpTo(S, n) == UNION {[1..k -> S] : k \in 0..n}
Contents == SeqsUpTo(Byte, MaxFileLen)

Drop(n, s) == SubSeq(s, n + 1, Len(s))

----------------------------------------------------------------------------
(* The operating system *)

ClosedHandle == [open |-> FALSE, name |-> "", write |-> FALSE, pos |-> 0]

(* The bytes of data in [pos, min(pos + n, size)). *)
FileBytes(data, pos, n) ==
    IF pos >= Len(data) THEN <<>>
    ELSE SubSeq(data, pos + 1, Min(pos + n, Len(data)))

(* data with bytes written at pos (pos <= Len(data)). *)
WriteAt(data, pos, bytes) ==
    [i \in 1..Max(Len(data), pos + Len(bytes)) |->
        IF i > pos /\ i <= pos + Len(bytes) THEN bytes[i - pos] ELSE data[i]]

FreeHandles == {h \in HandleIds : ~osHandles[h].open}

(* CreateFile(name, access, FILE_SHARE_READ, NULL, OPEN_EXISTING, ...):     *)
(* fails when the file does not exist (OPEN_EXISTING never creates), and    *)
(* on a sharing violation: every open of the code shares reading only, so   *)
(* an open for writing conflicts with any open handle on the file and an    *)
(* open for reading conflicts with a handle that has write access.          *)
CreateFile(name, wantWrite) ==
    IF /\ fs[name].exists
       /\ \A h \in HandleIds :
            (osHandles[h].open /\ osHandles[h].name = name)
                => (~wantWrite /\ ~osHandles[h].write)
       /\ FreeHandles # {}
    THEN CHOOSE h \in FreeHandles : \A g \in FreeHandles : h <= g
    ELSE INVALID_HANDLE_VALUE

OpenedHandle(name, wantWrite) ==
    [open |-> TRUE, name |-> name, write |-> wantWrite, pos |-> 0]

IsOpen(h) == h \in HandleIds /\ osHandles[h].open

(* CloseHandle(h): releases an open handle; fails on anything else. *)
CloseHandle(h) ==
    IF IsOpen(h) THEN [osHandles EXCEPT ![h] = ClosedHandle] ELSE osHandles

(* SetFilePointer(h, distance, &high, moveMethod) with a non-NULL high     *)
(* word: distance is one signed 64-bit value. Returns the low DWORD of the *)
(* new position (the position itself below 2^32), or                       *)
(* INVALID_SET_FILE_POINTER, leaving the pointer alone, when the handle is *)
(* not open or the new position would be negative (ERROR_NEGATIVE_SEEK).   *)
(* Moving past end-of-file is allowed.                                     *)
SetFilePointer(h, distance, fromCurrent) ==
    LET base == IF fromCurrent THEN osHandles[h].pos ELSE 0
        newPos == base + distance
    IN  IF IsOpen(h) /\ newPos >= 0
        THEN [ret |-> newPos, pos |-> newPos]
        ELSE [ret |-> INVALID_SET_FILE_POINTER,
              pos |-> IF IsOpen(h) THEN osHandles[h].pos ELSE 0]

(* ReadFile(h, scratch, n, &read, NULL): the outcomes the kernel can        *)
(* report. A read at or past end-of-file succeeds with zero bytes.          *)
ReadFileOutcomes(h, n) ==
    {[ret |-> FALSE, bytes |-> <<>>]} \cup
    (IF IsOpen(h)
     THEN {[ret |-> TRUE,
            bytes |-> FileBytes(fs[osHandles[h].name].data, osHandles[h].pos, n)]}
     ELSE {})

(* WriteFile(h, buffer, n, &written, NULL): failure, or success reporting   *)
(* the number of bytes written.                                             *)
WriteFileOutcomes(h, data) ==
    {[ret |-> FALSE, written |-> 0]} \cup
    (IF IsOpen(h)
     THEN {[ret |-> TRUE, written |-> w] : w \in 0..Len(data)}
     ELSE {})

(* FlushFileBuffers(h) *)
FlushOutcomes(h) == IF IsOpen(h) THEN {TRUE, FALSE} ELSE {FALSE}

----------------------------------------------------------------------------
(* Status *)

OK == "OK"
IOError == "IOError"
NotSupported == "NotSupported"

(* Win32IOError: always a non-OK status, whatever the error code. *)
Win32IOError == IOError

----------------------------------------------------------------------------
(* Win32FileBase *)

NoFileObject ==
    [live |-> FALSE, filename_ |-> "", hFile_ |-> INVALID_HANDLE_VALUE,
     ctor |-> INVALID_HANDLE_VALUE, closes |-> 0, sentinelCloses |-> 0,
     closeCalls |-> 0]

(* Win32FileBase(filename, h): the object as constructed. ctor, closes,    *)
(* sentinelCloses and closeCalls are history fields: the handle it was     *)
(* constructed with, the CloseHandle calls made for it on a handle other   *)
(* than INVALID_HANDLE_VALUE, those made on INVALID_HANDLE_VALUE, and the  *)
(* Close() calls made on it.                                               *)
Win32FileBase(filename, h) ==
    [live |-> TRUE, filename_ |-> filename, hFile_ |-> h,
     ctor |-> h, closes |-> 0, sentinelCloses |-> 0, closeCalls |-> 0]

(* ~Win32FileBase: the object after destruction. *)
DestroyedFileBase(obj) ==
    [obj EXCEPT !.live = FALSE,
                !.closes = IF obj.hFile_ # INVALID_HANDLE_VALUE THEN @ + 1 ELSE @]

HandlesAfterDestroy(obj) ==
    IF obj.hFile_ # INVALID_HANDLE_VALUE THEN CloseHandle(obj.hFile_) ELSE osHandles

(* _apiSetFilePointer: the Status returned for SetFilePointer's return code *)
apiSetFilePointerStatus(retCode) ==
    IF retCode = FALSE_ THEN Win32IOError ELSE OK

----------------------------------------------------------------------------
(* What a call returned *)

(* op: the call; status: the Status it returned; n: the size it was asked  *)
(* for; osRet, osCount: what the Win32 call it made reported; result: the  *)
(* Slice stored in *result; skipPos, skipN: for a Read that directly       *)
(* follows a Skip, the position before that Skip and its n (else -1).      *)
Returned(op, name, status, n, osRet, osCount, result) ==
    [op |-> op, name |-> name, status |-> status, n |-> n,
     osRet |-> osRet, osCount |-> osCount, result |-> result,
     skipPos |-> -1, skipN |-> -1]

NoOp == Returned("none", "", OK, 0, TRUE, 0, <<>>)

NoSkip == [pos |-> -1, n |-> -1]

NoReadHistory == [bytes |-> <<>>, eof |-> FALSE, whole |-> FALSE]

----------------------------------------------------------------------------
(* Win32Env::NewWritableFile and Win32WritableFile *)

NewWritableFile(fname) ==
    /\ ~wf.live
    /\ LET h == CreateFile(fname, TRUE)
       IN  IF h = INVALID_HANDLE_VALUE
           THEN /\ lastOp' = Returned("NewWritableFile", fname, Win32IOError,
                                      0, FALSE, 0, <<>>)
                /\ UNCHANGED <<osHandles, wf, appended>>
           ELSE /\ osHandles' = [osHandles EXCEPT ![h] = OpenedHandle(fname, TRUE)]
                /\ wf' = Win32FileBase(fname, h)
                /\ appended' = <<>>
                /\ lastOp' = Returned("NewWritableFile", fname, OK,
                                      0, TRUE, 0, <<>>)
    /\ UNCHANGED <<fs, sf, readAcc, prevSkip, randomVars, gc>>

NewAppendableFile(fname) ==
    /\ lastOp' = Returned("NewAppendableFile", fname, NotSupported,
                          0, TRUE, 0, <<>>)
    /\ UNCHANGED <<fs, osHandles, wf, appended, sf, readAcc, prevSkip,
                   randomVars, gc>>

(* The Status Append returns for WriteFile's outcome. *)
AppendStatus(o) == IF o.ret = FALSE THEN Win32IOError ELSE OK

WritableAppend(data) ==
    /\ wf.live
    /\ Len(appended) + Len(data) <= MaxFileLen
    /\ \E o \in WriteFileOutcomes(wf.hFile_, data) :
         LET h == wf.hFile_
             status == AppendStatus(o)
         IN  /\ IF o.written > 0
                THEN /\ fs' = [fs EXCEPT ![wf.filename_].data =
                                  WriteAt(@, osHandles[h].pos,
                                          SubSeq(data, 1, o.written))]
                     /\ osHandles' = [osHandles EXCEPT ![h].pos = @ + o.written]
                ELSE UNCHANGED <<fs, osHandles>>
             /\ appended' = IF status = OK THEN appended \o data ELSE appended
             /\ lastOp' = Returned("Append", wf.filename_, status, Len(data),
                                   o.ret, o.written, <<>>)
    /\ UNCHANGED <<wf, sf, readAcc, prevSkip, randomVars, gc>>

(* A Close that calls CloseHandle on a valid handle and keeps it stored. *)
WritableCloseKeepsHandle(obj) ==
    IF obj.hFile_ # INVALID_HANDLE_VALUE
    THEN [obj EXCEPT !.closes = @ + 1, !.closeCalls = @ + 1]
    ELSE [obj EXCEPT !.closeCalls = @ + 1]

(* Win32WritableFile::Close: the object after the call. The CloseHandle    *)
(* call of its branch is made with hFile_ == INVALID_HANDLE_VALUE.         *)
WritableClose(obj) ==
    IF obj.hFile_ = INVALID_HANDLE_VALUE
    THEN [obj EXCEPT !.hFile_ = INVALID_HANDLE_VALUE,
                     !.sentinelCloses = @ + 1,
                     !.closeCalls = @ + 1]
    ELSE [obj EXCEPT !.closeCalls = @ + 1]

WritableFileClose ==
    /\ wf.live
    /\ wf.closeCalls < MaxCloseCalls
    /\ wf' = WritableClose(wf)
    /\ osHandles' = IF wf'.closes + wf'.sentinelCloses
                            > wf.closes + wf.sentinelCloses
                    THEN CloseHandle(wf.hFile_)
                    ELSE osHandles
    /\ lastOp' = Returned("Close", wf.filename_, OK, 0, TRUE, 0, <<>>)
    /\ UNCHANGED <<fs, appended, sf, readAcc, prevSkip, randomVars, gc>>

WritableFlush ==
    /\ wf.live
    /\ lastOp' = Returned("Flush", wf.filename_, OK, 0, TRUE, 0, <<>>)
    /\ UNCHANGED <<fs, osHandles, wf, appended, sf, readAcc, prevSkip,
                   randomVars, gc>>

(* The Status Sync returns for FlushFileBuffers' outcome. *)
SyncStatus(flushed) == OK

WritableSync ==
    /\ wf.live
    /\ \E flushed \in FlushOutcomes(wf.hFile_) :
         lastOp' = Returned("Sync", wf.filename_, SyncStatus(flushed), 0,
                            flushed, 0, <<>>)
    /\ UNCHANGED <<fs, osHandles, wf, appended, sf, readAcc, prevSkip,
                   randomVars, gc>>

DeleteWritable ==
    /\ wf.live
    /\ osHandles' = HandlesAfterDestroy(wf)
    /\ wf' = DestroyedFileBase(wf)
    /\ lastOp' = Returned("delete", wf.filename_, OK, 0, TRUE, 0, <<>>)
    /\ UNCHANGED <<fs, appended, sf, readAcc, prevSkip, randomVars, gc>>

----------------------------------------------------------------------------
(* Win32Env::NewSequentialFile and Win32SequentialFile *)

NewSequentialFile(fname) ==
    /\ ~sf.live
    /\ LET h == CreateFile(fname, FALSE)
       IN  IF h = INVALID_HANDLE_VALUE
           THEN /\ lastOp' = Returned("NewSequentialFile", fname, Win32IOError,
                                      0, FALSE, 0, <<>>)
                /\ UNCHANGED <<osHandles, sf, readAcc>>
           ELSE /\ osHandles' = [osHandles EXCEPT ![h] = OpenedHandle(fname, FALSE)]
                /\ sf' = Win32FileBase(fname, h)
                /\ readAcc' = [bytes |-> <<>>, eof |-> FALSE,
                               whole |-> wf.closeCalls > 0]
                /\ lastOp' = Returned("NewSequentialFile", fname, OK,
                                      0, TRUE, 0, <<>>)
    /\ prevSkip' = NoSkip
    /\ UNCHANGED <<fs, wf, appended, randomVars, gc>>

(* The Status a Read returns for ReadFile's outcome. *)
ReadStatus(o) == IF o.ret = FALSE THEN Win32IOError ELSE OK

SequentialRead(n) ==
    /\ sf.live
    /\ \E o \in ReadFileOutcomes(sf.hFile_, n) :
         LET h == sf.hFile_
             status == ReadStatus(o)
         IN  /\ osHandles' = [osHandles EXCEPT ![h].pos = @ + Len(o.bytes)]
             /\ readAcc' = IF status = OK
                           THEN [readAcc EXCEPT
                                   !.bytes = @ \o o.bytes,
                                   !.eof = @ \/ (n > 0 /\ o.bytes = <<>>)]
                           ELSE readAcc
             /\ lastOp' = [Returned("Read", sf.filename_, status, n,
                                    o.ret, Len(o.bytes), o.bytes)
                             EXCEPT !.skipPos = prevSkip.pos,
                                    !.skipN = prevSkip.n]
    /\ prevSkip' = NoSkip
    /\ UNCHANGED <<fs, wf, appended, sf, randomVars, gc>>

Skip(n) ==
    /\ sf.live
    /\ osHandles[sf.hFile_].pos + n <= MaxFileLen + MaxSkip
    /\ LET h == sf.hFile_
           r == SetFilePointer(h, n, TRUE)
       IN  /\ osHandles' = [osHandles EXCEPT ![h].pos = r.pos]
           /\ prevSkip' = [pos |-> osHandles[h].pos, n |-> n]
           /\ readAcc' = [readAcc EXCEPT !.whole = FALSE]
           /\ lastOp' = Returned("Skip", sf.filename_,
                                 apiSetFilePointerStatus(r.ret), n,
                                 r.ret # INVALID_SET_FILE_POINTER, r.pos, <<>>)
    /\ UNCHANGED <<fs, wf, appended, sf, randomVars, gc>>

DeleteSequential ==
    /\ sf.live
    /\ osHandles' = HandlesAfterDestroy(sf)
    /\ sf' = DestroyedFileBase(sf)
    /\ prevSkip' = NoSkip
    /\ lastOp' = Returned("delete", sf.filename_, OK, 0, TRUE, 0, <<>>)
    /\ UNCHANGED <<fs, wf, appended, readAcc, randomVars, gc>>

----------------------------------------------------------------------------
(* Win32Env::NewRandomAccessFile and Win32RandomAccessFile *)

(* Offsets a caller passes to Read. -1 is the uint64_t 0xFFFFFFFFFFFFFFFF,  *)
(* which SetFilePointer takes as the signed 64-bit distance -1.             *)
Offsets == -1..MaxFileLen

(* pc: where the thread is inside Read; offset, n: the call's arguments;    *)
(* seekPos: where its SetFilePointer call left the file pointer; status:    *)
(* the local Status; retCode, bytes: the locals retCode and                 *)
(* scratch[0..numberOfBytesRead-1] after ReadFile; osFault: a Win32 call it *)
(* made failed.                                                             *)
IdleThread == [pc |-> "idle", offset |-> 0, n |-> 0, seekPos |-> 0,
               status |-> OK, retCode |-> TRUE, bytes |-> <<>>,
               osFault |-> FALSE]

(* thread: the caller; offset, n: its arguments; seekPos: where its         *)
(* SetFilePointer call left the file pointer; osFault: a Win32 call it made *)
(* failed; status, result: what Read returned.                              *)
NoRet == [thread |-> NoThread, offset |-> 0, n |-> 0, seekPos |-> 0,
          osFault |-> FALSE, status |-> OK, result |-> <<>>]

NewRandomAccessFile(fname) ==
    /\ ~rf.live
    /\ LET h == CreateFile(fname, FALSE)
       IN  IF h = INVALID_HANDLE_VALUE
           THEN /\ lastOp' = Returned("NewRandomAccessFile", fname, Win32IOError,
                                      0, FALSE, 0, <<>>)
                /\ UNCHANGED <<osHandles, rf>>
           ELSE /\ osHandles' = [osHandles EXCEPT ![h] = OpenedHandle(fname, FALSE)]
                /\ rf' = Win32FileBase(fname, h)
                /\ lastOp' = Returned("NewRandomAccessFile", fname, OK,
                                      0, TRUE, 0, <<>>)
    /\ UNCHANGED <<fs, wf, appended, sf, readAcc, prevSkip, mu_, th, raRet, gc>>

(* A thread calls Read and reaches mu_.Lock(). *)
RandomCall(t) ==
    /\ rf.live
    /\ th[t].pc = "idle"
    /\ th' = [th EXCEPT ![t].pc = "lock"]
    /\ UNCHANGED <<fileVars, rf, mu_, raRet, gc>>

(* mu_.Lock() returns only when no thread holds the mutex. *)
LockAcquirable == mu_ = NoThread

(* mu_.Unlock() *)
Unlock(holder) == NoThread

MutexKeptAfterSeekFailure(t) == t

(* The mutex after Read's exit on a failed reposition. *)
MutexAfterSeekFailure(t) == Unlock(t)

(* mu_.Lock() returns in thread t. The call's arguments play no part       *)
(* before this point, so they are drawn here.                               *)
RandomLock(t, offset, n) ==
    /\ th[t].pc = "lock"
    /\ LockAcquirable
    /\ mu_' = t
    /\ th' = [th EXCEPT ![t] = [IdleThread EXCEPT !.pc = "seek",
                                                  !.offset = offset,
                                                  !.n = n]]
    /\ UNCHANGED <<fileVars, rf, raRet, gc>>

(* _apiSetFilePointer(offset, FILE_BEGIN), and, when its status is not ok,  *)
(* the mu_.Unlock() of that branch. The thread has not returned yet.        *)
RandomSeek(t) ==
    /\ th[t].pc = "seek"
    /\ LET h == rf.hFile_
           r == SetFilePointer(h, th[t].offset, FALSE)
           status == apiSetFilePointerStatus(r.ret)
       IN  /\ osHandles' = [osHandles EXCEPT ![h].pos = r.pos]
           /\ IF status # OK
              THEN /\ mu_' = MutexAfterSeekFailure(t)
                   /\ th' = [th EXCEPT
                                ![t].pc = "failed",
                                ![t].seekPos = r.pos,
                                ![t].status = status,
                                ![t].osFault = r.ret = INVALID_SET_FILE_POINTER]
              ELSE /\ th' = [th EXCEPT ![t].pc = "read", ![t].seekPos = r.pos,
                                       ![t].status = status]
                   /\ UNCHANGED mu_
    /\ UNCHANGED <<fs, wf, appended, sf, readAcc, prevSkip, lastOp, rf, raRet, gc>>

(* return status, on the failed reposition: *result is left unassigned.     *)
RandomReturnFailure(t) ==
    /\ th[t].pc = "failed"
    /\ th' = [th EXCEPT ![t] = IdleThread]
    /\ raRet' = [thread |-> t, offset |-> th[t].offset, n |-> th[t].n,
                 seekPos |-> th[t].seekPos, osFault |-> th[t].osFault,
                 status |-> th[t].status, result |-> <<>>]
    /\ UNCHANGED <<fileVars, rf, mu_, gc>>

(* ReadFile and mu_.Unlock(). retCode and the bytes read stay in the        *)
(* thread's locals; other threads run before this one goes on.              *)
RandomRead(t) ==
    /\ th[t].pc = "read"
    /\ \E o \in ReadFileOutcomes(rf.hFile_, th[t].n) :
         LET h == rf.hFile_
         IN  /\ osHandles' = [osHandles EXCEPT ![h].pos = @ + Len(o.bytes)]
             /\ mu_' = Unlock(t)
             /\ th' = [th EXCEPT
                          ![t].pc = "unlocked",
                          ![t].retCode = o.ret,
                          ![t].bytes = o.bytes,
                          ![t].osFault = (o.ret = FALSE \/ th[t].offset < 0)]
    /\ UNCHANGED <<fs, wf, appended, sf, readAcc, prevSkip, lastOp, rf, raRet, gc>>

(* What Read returns after the Unlock: the test of retCode, *result and the *)
(* Status.                                                                  *)
ReadReturn(t) ==
    LET status == ReadStatus([ret |-> th[t].retCode])
    IN  [status |-> status,
         result |-> IF status = OK THEN th[t].bytes ELSE <<>>]

(* The rest of Read after mu_.Unlock(), up to its return. *)
RandomReturn(t) ==
    /\ th[t].pc = "unlocked"
    /\ th' = [th EXCEPT ![t] = IdleThread]
    /\ raRet' = [thread |-> t, offset |-> th[t].offset, n |-> th[t].n,
                 seekPos |-> th[t].seekPos, osFault |-> th[t].osFault,
                 status |-> ReadReturn(t).status,
                 result |-> ReadReturn(t).result]
    /\ UNCHANGED <<fileVars, rf, mu_, gc>>

DeleteRandom ==
    /\ rf.live
    /\ \A t \in Threads : th[t].pc = "idle"
    /\ osHandles' = HandlesAfterDestroy(rf)
    /\ rf' = DestroyedFileBase(rf)
    /\ raRet' = NoRet
    /\ lastOp' = Returned("delete", rf.filename_, OK, 0, TRUE, 0, <<>>)
    /\ UNCHANGED <<fs, wf, appended, sf, readAcc, prevSkip, mu_, th, gc>>

----------------------------------------------------------------------------
(* Win32Env::GetChildren *)

ChildNames == {"a.txt", "b.txt", "c.txt"}
PseudoEntries == {".", ".."}

Range(s) == {s[i] : i \in 1..Len(s)}

(* The sequences without repetition over the subsets of S. *)
Orderings(S) ==
    {s \in SeqsUpTo(S, Cardinality(S)) :
        \A i, j \in 1..Len(s) : i # j => s[i] # s[j]}

(* What FindFirstFile / FindNextFile enumerate for dir\*.* : the entries of *)
(* a directory in the file system's order, led by "." and ".." except in a  *)
(* root directory. The empty enumeration stands for a directory that        *)
(* FindFirstFile cannot open (missing, or nothing matches).                 *)
Enumerations ==
    Orderings(ChildNames) \cup {<<".", "..">> \o s : s \in Orderings(ChildNames)}

IdleGetChildren ==
    [pc |-> "idle", entries |-> <<>>, idx |-> 0, fileFound |-> FALSE,
     result |-> <<>>, status |-> OK, iter |-> 0]

(* GetChildren up to the loop: result->clear(), FindFirstFile. *)
GetChildrenStart(entries) ==
    /\ gc.pc \in {"idle", "done"}
    /\ gc' = IF entries = <<>>
             THEN [pc |-> "done", entries |-> entries, idx |-> 0,
                   fileFound |-> FALSE, result |-> <<>>,
                   status |-> Win32IOError, iter |-> 0]
             ELSE [pc |-> "loop", entries |-> entries, idx |-> 1,
                   fileFound |-> TRUE, result |-> <<>>,
                   status |-> OK, iter |-> 0]
    /\ UNCHANGED <<fileVars, randomVars>>

(* findFileData.cFileName *)
CurrentName == gc.entries[gc.idx]

(* One iteration that reaches a continue: nothing is read or advanced. *)
GetChildrenContinue ==
    /\ gc.pc = "loop"
    /\ gc.fileFound
    /\ CurrentName \in PseudoEntries
    /\ gc.iter < MaxIter
    /\ gc' = [gc EXCEPT !.iter = @ + 1]
    /\ UNCHANGED <<fileVars, randomVars>>

(* One iteration that pushes the name and calls FindNextFile. *)
GetChildrenPush ==
    /\ gc.pc = "loop"
    /\ gc.fileFound
    /\ CurrentName \notin PseudoEntries
    /\ gc.iter < MaxIter
    /\ gc' = [gc EXCEPT !.result = Append(@, CurrentName),
                        !.fileFound = gc.idx < Len(gc.entries),
                        !.idx = IF gc.idx < Len(gc.entries) THEN @ + 1 ELSE @,
                        !.iter = @ + 1]
    /\ UNCHANGED <<fileVars, randomVars>>

(* The loop's exit: FindClose and return OK. *)
GetChildrenReturn ==
    /\ gc.pc = "loop"
    /\ ~gc.fileFound
    /\ gc' = [gc EXCEPT !.pc = "done", !.status = OK]
    /\ UNCHANGED <<fileVars, randomVars>>

----------------------------------------------------------------------------
(* Specifications *)

Init ==
    /\ fs \in [FileNames -> {[exists |-> FALSE, data |-> <<>>]}
                             \cup {[exists |-> TRUE, data |-> d] : d \in Contents}]
    /\ osHandles = [h \in HandleIds |-> ClosedHandle]
    /\ wf = NoFileObject
    /\ appended = <<>>
    /\ sf = NoFileObject
    /\ readAcc = NoReadHistory
    /\ prevSkip = NoSkip
    /\ lastOp = NoOp
    /\ rf = NoFileObject
    /\ mu_ = NoThread
    /\ th = [t \in Threads |-> IdleThread]
    /\ raRet = NoRet
    /\ gc = IdleGetChildren

Next ==
    \/ \E fname \in FileNames : NewWritableFile(fname)
    \/ \E fname \in FileNames : NewAppendableFile(fname)
    \/ \E data \in Contents : WritableAppend(data)
    \/ WritableFileClose
    \/ WritableFlush
    \/ WritableSync
    \/ DeleteWritable
    \/ \E fname \in FileNames : NewSequentialFile(fname)
    \/ \E n \in 0..MaxRead : SequentialRead(n)
    \/ \E n \in 0..MaxSkip : Skip(n)
    \/ DeleteSequential

Spec == Init /\ [][Next]_vars

NextRandom ==
    \/ \E fname \in FileNames : NewRandomAccessFile(fname)
    \/ \E t \in Threads : RandomCall(t)
    \/ \E t \in Threads, offset \in Offsets, n \in 0..MaxRead :
            RandomLock(t, offset, n)
    \/ \E t \in Threads : RandomSeek(t)
    \/ \E t \in Threads : RandomReturnFailure(t)
    \/ \E t \in Threads : RandomRead(t)
    \/ \E t \in Threads : RandomReturn(t)
    \/ DeleteRandom

SpecRandom == Init /\ [][NextRandom]_vars

NextDir ==
    \/ \E entries \in Enumerations : GetChildrenStart(entries)
    \/ GetChildrenContinue
    \/ GetChildrenPush
    \/ GetChildrenReturn

SpecDir == Init /\ [][NextDir]_vars

(* The writer, the sequential reader and the random access file live side  *)
(* by side on the file system: every call of Next and of NextRandom, in any *)
(* order, with smaller arguments.                                           *)
InitHandles ==
    /\ Init
    /\ \A fname \in FileNames : Len(fs[fname].data) <= MaxHandleLen

NextHandles ==
    \/ \E fname \in FileNames : NewWritableFile(fname)
    \/ \E fname \in FileNames : NewAppendableFile(fname)
    \/ \E data \in SeqsUpTo(Byte, MaxHandleAdvance) : WritableAppend(data)
    \/ WritableFileClose
    \/ WritableFlush
    \/ WritableSync
    \/ DeleteWritable
    \/ \E fname \in FileNames : NewSequentialFile(fname)
    \/ \E n \in 0..MaxHandleLen : SequentialRead(n)
    \/ \E n \in 0..MaxHandleAdvance : Skip(n)
    \/ DeleteSequential
    \/ \E fname \in FileNames : NewRandomAccessFile(fname)
    \/ \E t \in 1..HandleThreads : RandomCall(t)
    \/ \E t \in 1..HandleThreads, offset \in -1..MaxHandleLen,
          n \in 0..MaxHandleLen :
            RandomLock(t, offset, n)
    \/ \E t \in 1..HandleThreads : RandomSeek(t)
    \/ \E t \in 1..HandleThreads : RandomReturnFailure(t)
    \/ \E t \in 1..HandleThreads : RandomRead(t)
    \/ \E t \in 1..HandleThreads : RandomReturn(t)
    \/ DeleteRandom

SpecHandles == InitHandles /\ [][NextHandles]_vars

----------------------------------------------------------------------------
(* Properties of Win32RandomAccessFile::Read (SpecRandom) *)

RandomData == fs[rf.filename_].data

(* The file's bytes located at offset: none for an offset past end-of-file, *)
(* which every offset of 2^63 and more (-1 here) is.                        *)
BytesAtOffset(offset, n) ==
    IF offset < 0 THEN <<>> ELSE FileBytes(RandomData, offset, n)

(* C1: whenever a thread of a concurrent Read is about to call ReadFile, it *)
(* holds mu_ and no other thread is between its own Lock and its Unlock;    *)
(* and the bytes a call has read, and those a Read returns with OK, are the *)
(* file's bytes located at the offset that call was given, not bytes at a   *)
(* position the pointer was left at by another call.                        *)
ReadUsesOwnPosition ==
    /\ \A t \in Threads :
         th[t].pc = "read" =>
            /\ mu_ = t
            /\ \A u \in Threads \ {t} :
                    th[u].pc \in {"idle", "lock", "failed", "unlocked"}
    /\ \A t \in Threads :
         (th[t].pc = "unlocked" /\ th[t].retCode) =>
            th[t].bytes = BytesAtOffset(th[t].offset, th[t].n)
    /\ (raRet.thread # NoThread /\ raRet.status = OK) =>
         raRet.result = BytesAtOffset(raRet.offset, raRet.n)

(* C4: a Read at 0 <= offset <= size whose Win32 calls did not fail returns *)
(* OK and exactly the file's bytes in [offset, min(offset + n, size)).      *)
PositionedReadReturnsBytes ==
    (/\ raRet.thread # NoThread
     /\ ~raRet.osFault
     /\ raRet.offset \in 0..Len(RandomData))
        => /\ raRet.status = OK
           /\ raRet.result = FileBytes(RandomData, raRet.offset, raRet.n)

(* C10: a thread that is outside Read, or has entered it and not yet        *)
(* acquired mu_, does not hold mu_: whoever holds it is between its Lock    *)
(* and its Unlock, whichever exit the earlier calls took.                   *)
GuardReleasedOnReturn ==
    /\ \A t \in Threads : th[t].pc \in {"idle", "lock"} => mu_ # t
    /\ mu_ # NoThread => th[mu_].pc \in {"seek", "read"}

(* A call has left Read through the failed-reposition exit and another      *)
(* thread has acquired mu_ since.                                           *)
GuardReleasedOnReturnWitness ==
    /\ raRet.thread # NoThread
    /\ raRet.status # OK
    /\ raRet.offset = 0
    /\ th[raRet.thread].pc = "idle"
    /\ \E u \in Threads \ {raRet.thread} : th[u].pc = "seek" /\ mu_ = u

----------------------------------------------------------------------------
(* Properties of Win32WritableFile and Win32SequentialFile (Spec) *)

(* C2: NewWritableFile succeeds; after Append and Close, NewSequentialFile  *)
(* on the same name succeeds; and reading it up to a zero-length result     *)
(* yields exactly the bytes appended, in order.                             *)
WriteThenReadRoundTrip ==
    /\ lastOp.op = "NewWritableFile" => lastOp.status = OK
    /\ (lastOp.op = "NewSequentialFile" /\ wf.closeCalls > 0
            /\ wf.filename_ = lastOp.name)
         => lastOp.status = OK
    /\ (sf.live /\ readAcc.whole /\ readAcc.eof) => readAcc.bytes = appended

(* C3: after a Close() the writer's handle has been released to the         *)
(* operating system exactly once and is marked invalid, and Close           *)
(* returned OK.                                                             *)
CloseReleasesHandle ==
    lastOp.op = "Close" =>
        /\ lastOp.status = OK
        /\ wf.hFile_ = INVALID_HANDLE_VALUE
        /\ ~osHandles[wf.ctor].open
        /\ wf.closes = 1

(* C5: Skip(n) returns OK at any position, and a Read(k) that directly      *)
(* follows it returns what Read(n + k) from the position before the Skip    *)
(* would, less its first n bytes (nothing when fewer than n remained).      *)
SkipThenReadIsReadDiscarding ==
    /\ lastOp.op = "Skip" => lastOp.status = OK
    /\ (lastOp.op = "Read" /\ lastOp.skipN >= 0 /\ lastOp.osRet)
         => /\ lastOp.status = OK
            /\ lastOp.result =
                 Drop(lastOp.skipN,
                      FileBytes(fs[lastOp.name].data, lastOp.skipPos,
                                lastOp.skipN + lastOp.n))

(* C7: NewWritableFile returns OK whether or not the file existed, and      *)
(* leaves the file existing and empty.                                      *)
NewWritableFileCreatesEmpty ==
    lastOp.op = "NewWritableFile" =>
        /\ lastOp.status = OK
        /\ fs[lastOp.name].exists
        /\ fs[lastOp.name].data = <<>>

(* C8: Append returns OK exactly when WriteFile succeeded and reported all  *)
(* of data.size() bytes written.                                            *)
AppendReportsShortWrite ==
    lastOp.op = "Append" =>
        (lastOp.status = OK <=> (lastOp.osRet /\ lastOp.osCount = lastOp.n))

(* C9: Sync returns OK exactly when FlushFileBuffers succeeded.             *)
SyncReportsFlushFailure ==
    lastOp.op = "Sync" => (lastOp.status = OK <=> lastOp.osRet)

----------------------------------------------------------------------------
(* Properties of Win32Env::GetChildren (SpecDir) *)

(* C6: for an enumeration that FindFirstFile opens, GetChildren terminates  *)
(* (its loop runs at most one iteration per entry enumerated), returns OK,  *)
(* and leaves in result exactly the entries other than "." and "..", each   *)
(* once.                                                                    *)
GetChildrenListsDirectory ==
    /\ gc.pc = "loop" => gc.iter <= Len(gc.entries)
    /\ (gc.pc = "done" /\ gc.entries # <<>>)
         => /\ gc.status = OK
            /\ Range(gc.result) = Range(gc.entries) \ PseudoEntries
            /\ Len(gc.result) = Cardinality(Range(gc.result))

----------------------------------------------------------------------------
(* Properties of Win32FileBase's handle (SpecHandles) *)

FileObjects == {wf, sf, rf}

(* C11: for the writer, the sequential reader and the random access file,  *)
(* through any calls, Close() calls and destruction: CloseHandle has been  *)
(* called on the object's handle at most once and never on                 *)
(* INVALID_HANDLE_VALUE, and the handle stored in hFile_ is the handle the *)
(* object was constructed with, still open while the object lives, or      *)
(* INVALID_HANDLE_VALUE.                                                   *)
HandleClosedAtMostOnce ==
    \A obj \in FileObjects :
        /\ obj.closes <= 1
        /\ obj.sentinelCloses = 0
        /\ obj.hFile_ \in {obj.ctor, INVALID_HANDLE_VALUE}
        /\ (obj.live /\ obj.hFile_ # INVALID_HANDLE_VALUE)
             => (obj.closes = 0 /\ IsOpen(obj.hFile_))

(* A writer has had Close() called on it twice and has been destroyed; a   *)
(* sequential reader and a random access file have been open at the same   *)
(* time, on two handles, and have both been destroyed: each handle was     *)
(* closed once and none is left open.                                      *)
HandleClosedAtMostOnceWitness ==
    /\ ~wf.live
    /\ wf.closeCalls >= 2
    /\ wf.closes = 1
    /\ ~sf.live
    /\ sf.closes = 1
    /\ ~rf.live
    /\ rf.closes = 1
    /\ sf.ctor # rf.ctor
    /\ \A h \in HandleIds : ~IsOpen(h)

====
